---- MODULE Spec2Model ----
(***************************************************************************)
(* Model of the hOn Home Assistant integration:                            *)
(*   custom_components/hon/__init__.py  (entry setup / unload, coordinator,*)
(*                                       thread-safe vendor callback)      *)
(*   custom_components/hon/switch.py    (switch platform and its entities) *)
(***************************************************************************)
EXTENDS Integers, Sequences, FiniteSets, TLC

VARIABLES
    \* ---- __init__.py: config entry life cycle
    pc,            \* position of async_setup_entry / async_unload_entry
    configDir,     \* hass.config.config_dir is not None
    hon,           \* the vendor client: [created, refresh_token]
    entryData,     \* entry.data, a mapping key -> value
    coordinator,   \* HonDataUpdateCoordinator created
    subscribed,    \* number of callbacks given to hon.subscribe_updates
    hassData,      \* hass.data[DOMAIN][entry.unique_id]
    platformSaw,   \* hass.data record read by the switch platform's setup
    setupResult,   \* what async_setup_entry returned / raised
    unloadResult,  \* what async_unload_entry returned
    opLog,         \* per operation: the error inside it, its outcome, its log
    \* ---- event loop and vendor thread
    loopQueue,     \* callbacks scheduled with call_soon_threadsafe (FIFO)
    loopClosed,    \* the host loop is closed (call_soon_threadsafe raises)
    notified,      \* number of invocations of the vendor callback
    scheduled,     \* ids of the notifications whose update was scheduled
    coordRuns,     \* coordinator.async_set_updated_data runs: [id, thread]
    \* ---- switch.py: devices and entities
    appliances,    \* hon.appliances
    entities,      \* the entities handed to async_add_entities
    addCalls,      \* number of calls of async_add_entities
    attrIsOn,      \* entity index -> _attr_is_on
    superAvailable,\* HonEntity.available of the base class
    sent,          \* commands sent to the device, in order
    call,          \* the entity service call in progress / last finished
    callWrites,    \* entity indices whose HA state was written by that call
    \* ---- __init__.py: HonDataUpdateCoordinator
    superCalls     \* last async_set_updated_data: its argument, the calls of super()

lifeVars == <<pc, configDir, hon, entryData, coordinator, subscribed, hassData,
              platformSaw, setupResult, unloadResult, opLog>>
loopVars == <<loopQueue, loopClosed, notified, scheduled, coordRuns>>
devVars  == <<appliances, entities, addCalls, attrIsOn, superAvailable, sent,
              call, callWrites>>
vars     == <<lifeVars, loopVars, devVars, superCalls>>

-----------------------------------------------------------------------------
\* Bounds of the model
MaxNotifications == 3     \* invocations of the vendor callback
MaxAppliances    == 2     \* len(hon.appliances) in the platform specification
MaxLevel         == 2     \* range parameters have 0 <= min <= max <= MaxLevel
MaxCalls         == 2     \* commands sent in the entity specifications

-----------------------------------------------------------------------------
\* Python values as the code compares them: 1 == True, 1 != "1", None
Num(n)   == [t |-> "num",  n |-> n]
Str(n)   == [t |-> "str",  n |-> n]      \* the digit string "n"
BoolV(b) == [t |-> "bool", n |-> IF b THEN 1 ELSE 0]
Absent   == [t |-> "none", n |-> 0]      \* key missing / None

PyEq(a, b) ==
    IF a.t \in {"num", "bool"} /\ b.t \in {"num", "bool"} THEN a.n = b.n
    ELSE a.t = b.t /\ a.n = b.n

-----------------------------------------------------------------------------
\* pyhon parameters: [kind, min, max, value]; only a range has min / max
ParamKinds == {"HonParameter", "HonParameterRange", "HonParameterEnum",
               "HonParameterFixed"}

IsBareHonParameter(p)  == p.kind = "HonParameter"          \* type(p) == HonParameter
IsHonParameterRange(p) == p.kind = "HonParameterRange"     \* isinstance(p, HonParameterRange)
HasMin(p)              == p.kind = "HonParameterRange"     \* hasattr(p, "min")
\* len(setting.values) of a range with step 1
RangeValuesLen(p)      == p.max - p.min + 1

RangeParam(lo, hi, v) == [kind |-> "HonParameterRange", min |-> lo, max |-> hi,
                          value |-> Num(v)]
OtherParam(k, v)      == [kind |-> k, min |-> 0, max |-> 0, value |-> v]

\* every parameter the entity specifications start from
Params ==
    {RangeParam(b[1], b[2], b[1]) :
        b \in {x \in (0..MaxLevel) \X (0..MaxLevel) : x[1] <= x[2]}}
    \cup {OtherParam(k, Str(0)) : k \in ParamKinds \ {"HonParameterRange"}}

-----------------------------------------------------------------------------
\* Devices: [appliance_type, settings, commands, attributes, category]
AttrKeys == {"active", "autoSoftenerStatus", "remoteCtrValid"}

\* device.get(key, default)
DeviceGet(device, key, default) ==
    IF device.attributes[key] = Absent THEN default ELSE device.attributes[key]

\* device.available_settings: the names of the device's settings
available_settings(device) == DOMAIN device.settings

-----------------------------------------------------------------------------
\* switch.py: the description classes and the SWITCHES table (a part of it)
ControlDescription(k, onKey, offKey) ==
    [cls |-> "HonControlSwitchEntityDescription", key |-> k,
     turn_on_key |-> onKey, turn_off_key |-> offKey]
SwitchDescription(k) ==
    [cls |-> "HonSwitchEntityDescription", key |-> k,
     turn_on_key |-> "", turn_off_key |-> ""]
ConfigDescription(k) ==
    [cls |-> "HonConfigSwitchEntityDescription", key |-> k,
     turn_on_key |-> "", turn_off_key |-> ""]

ActiveDesc  == ControlDescription("active", "startProgram", "stopProgram")
DelayDesc   == ConfigDescription("startProgram.delayStatus")
SoftenerDesc == SwitchDescription("autoSoftenerStatus")

ApplianceTypes == {"WM", "XX"}

\* SWITCHES.get(device.appliance_type, [])
SWITCHES(type) ==
    IF type = "WM" THEN <<ActiveDesc, DelayDesc, SoftenerDesc>> ELSE <<>>

\* f"settings.{description.key}"
SettingsKey(key) ==
    IF key = "autoSoftenerStatus" THEN "settings.autoSoftenerStatus"
    ELSE "settings.?"

\* The entity class created for a description on a device, "none" for `continue`
EntityClassWrongControl(device, d) ==
    IF d.cls = "HonConfigSwitchEntityDescription" THEN
        IF d.key \notin available_settings(device) THEN "none"
        ELSE "HonConfigSwitchEntity"
    ELSE IF d.cls = "HonControlSwitchEntityDescription" THEN
        IF ~( DeviceGet(device, d.key, Absent) /= Absent
              \/ (d.turn_on_key \in device.commands
                  /\ d.turn_off_key \in device.commands) ) THEN "none"
        ELSE "HonControlSwitchEntity"
    ELSE IF d.cls = "HonSwitchEntityDescription" THEN
        IF SettingsKey(d.key) \notin available_settings(device) THEN "none"
        ELSE "HonSwitchEntity"
    ELSE "none"

EntityClass(device, d) ==
    IF d.cls = "HonConfigSwitchEntityDescription" THEN
        IF d.key \notin available_settings(device) THEN "none"
        ELSE "HonConfigSwitchEntity"
    ELSE IF d.cls = "HonControlSwitchEntityDescription" THEN
        IF ~( DeviceGet(device, d.key, Absent) /= Absent
              \/ d.turn_on_key \in device.commands
              \/ d.turn_off_key \in device.commands ) THEN "none"
        ELSE "HonControlSwitchEntity"
    ELSE IF d.cls = "HonSwitchEntityDescription" THEN
        IF SettingsKey(d.key) \notin available_settings(device) THEN "none"
        ELSE "HonSwitchEntity"
    ELSE "none"

\* the inner loop of async_setup_entry over SWITCHES[device.appliance_type]
RECURSIVE DeviceEntities(_, _, _)
DeviceEntities(devs, i, j) ==
    LET descs == SWITCHES(devs[i].appliance_type) IN
    IF j > Len(descs) THEN <<>>
    ELSE LET c == EntityClass(devs[i], descs[j]) IN
         (IF c = "none" THEN <<>>
          ELSE <<[cls |-> c, device |-> i, description |-> descs[j]]>>)
         \o DeviceEntities(devs, i, j + 1)

\* the outer loop of async_setup_entry over hon.appliances
RECURSIVE SetupEntities(_, _)
SetupEntities(devs, i) ==
    IF i > Len(devs) THEN <<>>
    ELSE DeviceEntities(devs, i, 1) \o SetupEntities(devs, i + 1)

-----------------------------------------------------------------------------
\* Exceptions: [type, msg]; msg is the text str(e) as a sequence of words
NoExc == [type |-> "none", msg |-> <<>>]
Exc(t, m) == [type |-> t, msg |-> m]

AlreadySetupMsg == <<"Config", "entry", "has", "already", "been", "setup">>
NeverLoadedMsg  == <<"Config", "entry", "was", "never", "loaded">>
AlreadyNeedle   == <<"has", "already", "been", "setup">>

\* needle in str(e)
Contains(msg, needle) ==
    \E i \in 1..(Len(msg) + 1) :
        /\ i + Len(needle) - 1 <= Len(msg)
        /\ SubSeq(msg, i, i + Len(needle) - 1) = needle

\* One record per operation: the error raised inside it, how the operation
\* ended ("returned" / "raised" / "not_run") and the level it logged the error at
Ops == {"async_setup_entry", "async_forward_entry_setups_with_error_handling",
        "async_set_updated_data", "wrapper", "_handle_coordinator_update"}
OpRec(exc, outcome, logged) == [exc |-> exc, outcome |-> outcome, logged |-> logged]
NotRun == OpRec(NoExc, "not_run", "none")

-----------------------------------------------------------------------------
\* switch.py: the entities' properties

\* HonSwitchEntity.is_on

HonSwitchEntity_is_on(device, d) ==
    BoolV(PyEq(DeviceGet(device, d.key, Num(0)), Num(1)))

\* HonControlSwitchEntity.is_on
HonControlSwitchEntity_is_on(device, d) ==
    DeviceGet(device, d.key, BoolV(FALSE))

\* HonConfigSwitchEntity.is_on
HonConfigSwitchEntity_is_on(device, d) ==
    LET setting == device.settings[d.key] IN
    BoolV(IF HasMin(setting) THEN ~PyEq(setting.value, Num(setting.min))
          ELSE PyEq(setting.value, Str(1)))

is_on(devs, e) ==
    CASE e.cls = "HonSwitchEntity" ->
            HonSwitchEntity_is_on(devs[e.device], e.description)
      [] e.cls = "HonControlSwitchEntity" ->
            HonControlSwitchEntity_is_on(devs[e.device], e.description)
      [] e.cls = "HonConfigSwitchEntity" ->
            HonConfigSwitchEntity_is_on(devs[e.device], e.description)

\* HonSwitchEntity.available
HonSwitchEntity_available_ignores_range(device, d, super) ==
    IF ~super THEN FALSE
    ELSE IF ~PyEq(DeviceGet(device, "remoteCtrValid", Num(1)), Num(1)) THEN FALSE
    ELSE IF device.category = "DISCONNECTED" THEN FALSE
    ELSE TRUE

HonSwitchEntity_available(device, d, super) ==
    IF ~super THEN FALSE
    ELSE IF ~PyEq(DeviceGet(device, "remoteCtrValid", Num(1)), Num(1)) THEN FALSE
    ELSE IF device.category = "DISCONNECTED" THEN FALSE
    ELSE LET setting == device.settings[SettingsKey(d.key)] IN
         IF IsHonParameterRange(setting) /\ RangeValuesLen(setting) < 2 THEN FALSE
         ELSE TRUE

\* the value HonSwitchEntity.async_turn_on / async_turn_off assigns
HonSwitchEntity_on_value_one(setting) == Num(1)

HonSwitchEntity_on_value(setting) ==
    IF IsHonParameterRange(setting) THEN Num(setting.max) ELSE Num(1)
HonSwitchEntity_off_value(setting) ==
    IF IsHonParameterRange(setting) THEN Num(setting.min) ELSE Num(0)

\* the value HonConfigSwitchEntity.async_turn_on / async_turn_off assigns
HonConfigSwitchEntity_on_value(setting) ==
    IF IsHonParameterRange(setting) THEN Num(setting.max) ELSE Str(1)
HonConfigSwitchEntity_off_value_max(setting) ==
    IF IsHonParameterRange(setting) THEN Num(setting.max) ELSE Str(0)
HonConfigSwitchEntity_off_value(setting) ==
    IF IsHonParameterRange(setting) THEN Num(setting.min) ELSE Str(0)

\* setting.value = v on device i
SetValueEverySetting(devs, i, name, v) ==
    [devs EXCEPT ![i].settings = [k \in DOMAIN @ |-> [@[k] EXCEPT !.value = v]]]

SetValue(devs, i, name, v) == [devs EXCEPT ![i].settings[name].value = v]
\* device.attributes[key] = v on device i
SetAttribute(devs, i, key, v) == [devs EXCEPT ![i].attributes[key] = v]

-----------------------------------------------------------------------------
\* Coordinator and listeners

\* the entities whose _handle_coordinator_update is defined in switch.py
HasHandler(e) == e.cls \in {"HonSwitchEntity", "HonConfigSwitchEntity"}
Listeners(ents) == {i \in 1..Len(ents) : HasHandler(ents[i])}

\* _handle_coordinator_update of every listener, on the devices `devs`;
\* async_write_ha_state raises for the listeners in `failing`
HandledIsOn(devs, ents, old) ==
    [i \in 1..Len(ents) |-> IF HasHandler(ents[i]) THEN is_on(devs, ents[i])
                            ELSE old[i]]

\* try / except of _handle_coordinator_update: log the error, return
HandleUpdateResult(exc) ==
    IF exc = NoExc THEN OpRec(NoExc, "returned", "none")
    ELSE OpRec(exc, "returned", "error")

\* try / except of HonDataUpdateCoordinator.async_set_updated_data
CoordinatorResultSwallow(exc) ==
    IF exc = NoExc THEN OpRec(NoExc, "returned", "none")
    ELSE OpRec(exc, "returned", "error")

CoordinatorResult(exc) ==
    IF exc = NoExc THEN OpRec(NoExc, "returned", "none")
    ELSE OpRec(exc, "raised", "error")

WriteExc == Exc("RuntimeError", <<"Attribute", "hass", "is", "None">>)
BaseExc  == Exc("RuntimeError", <<"listener", "failed">>)

\* the data objects handed to the coordinator; every caller here passes {}
EmptyData   == "{}"
DataObjects == {EmptyData, "dataA", "dataB"}
NoSuperCalls == [arg |-> "none", super |-> <<>>, superExc |-> NoExc]

\* line 44: the calls of super().async_set_updated_data made for `data`
SuperCallsEmptyDict(data) == <<EmptyData>>

SuperCalls(data) == <<data>>

\* HonDataUpdateCoordinator.async_set_updated_data(data) on the devices `devs`:
\* the base method raises `exc` (before it notifies) or notifies every listener
HonDataUpdateCoordinator_async_set_updated_data(devs, data, exc, failing) ==
    /\ superCalls' = [arg |-> data, super |-> SuperCalls(data), superExc |-> exc]
    /\ opLog' = [opLog EXCEPT
            !["async_set_updated_data"] = CoordinatorResult(exc),
            !["_handle_coordinator_update"] =
                IF exc /= NoExc \/ Listeners(entities) = {} THEN @
                ELSE HandleUpdateResult(IF failing = {} THEN NoExc ELSE WriteExc)]
    /\ attrIsOn' = IF exc = NoExc THEN HandledIsOn(devs, entities, attrIsOn)
                   ELSE attrIsOn

\* coordinator.async_set_updated_data({}), as every caller in the repository
async_set_updated_data(devs, exc, failing) ==
    HonDataUpdateCoordinator_async_set_updated_data(devs, EmptyData, exc, failing)

\* the listeners whose HA state that update wrote
WrittenBy(exc, failing) ==
    IF exc = NoExc THEN Listeners(entities) \ failing ELSE {}

-----------------------------------------------------------------------------
\* switch.py 405-432: async_setup_entry of the switch platform builds the list
\* and calls async_add_entities(entities) once
SwitchSetupEntry ==
    /\ entities' = SetupEntities(appliances, 1)
    /\ addCalls' = addCalls + 1
    /\ attrIsOn' = [i \in 1..Len(entities') |-> Absent]

-----------------------------------------------------------------------------
\* __init__.py: async_setup_entry

CONF_EMAIL         == "email"
CONF_PASSWORD      == "password"
CONF_REFRESH_TOKEN == "refresh_token"
UniqueId           == "uid"
Tokens             == {"tokA", "tokB"}

\* the statements of async_setup_entry in program order; pc names the next one
SetupOrderForwardBeforeStore ==
    <<"check_config_dir", "create_hon", "save_token", "create_coordinator",
      "subscribe", "forward", "store", "return", "setup_done">>

SetupOrder ==
    <<"check_config_dir", "create_hon", "save_token", "create_coordinator",
      "subscribe", "store", "forward", "return", "setup_done">>

Following(stmt) ==
    LET i == CHOOSE k \in 1..Len(SetupOrder) : SetupOrder[k] = stmt
    IN  SetupOrder[i + 1]

\* the places where the event loop runs other callbacks: the awaits of
\* async_setup_entry / async_unload_entry and the time between the handlers
AtAwait == pc \in {"create_hon", "forward", "setup_done", "setup_raised",
                   "unload_platforms", "unloaded", "unload_failed"}

\* {**entry.data, CONF_REFRESH_TOKEN: token}
UpdateEntryDataTokenOnly(data, token) ==
    [k \in {CONF_REFRESH_TOKEN} |-> token]

UpdateEntryData(data, token) ==
    [k \in DOMAIN data \cup {CONF_REFRESH_TOKEN} |->
        IF k = CONF_REFRESH_TOKEN THEN token ELSE data[k]]

MissingConfigDir == Exc("ValueError", <<"Missing", "Config", "Dir">>)
AuthFailed       == Exc("HonAuthenticationError", <<"login", "failed">>)
KeyErrorExc      == Exc("KeyError", <<"uid">>)

\* lines 55-56: raise ValueError("Missing Config Dir"), nothing is logged
SetupCheckConfigDir ==
    /\ pc = "check_config_dir"
    /\ IF configDir
       THEN /\ pc' = Following("check_config_dir")
            /\ UNCHANGED <<setupResult, opLog>>
       ELSE /\ pc' = "setup_raised"
            /\ setupResult' = "raised"
            /\ opLog' = [opLog EXCEPT !["async_setup_entry"] =
                            OpRec(MissingConfigDir, "raised", "none")]
    /\ UNCHANGED <<superCalls, configDir, hon, entryData, coordinator, subscribed, hassData,
                   platformSaw, unloadResult, loopVars, devVars>>

\* lines 58-70: try: hon = await Hon(...).create()  except: log error, raise

CreateHonResult(exc) ==
    IF exc = NoExc THEN OpRec(NoExc, "running", "none")
    ELSE OpRec(exc, "raised", "error")

SetupCreateHon(exc, token) ==
    /\ pc = "create_hon"
    /\ LET r == CreateHonResult(exc) IN
       /\ opLog' = [opLog EXCEPT !["async_setup_entry"] = r]
       /\ IF r.outcome = "raised"
          THEN /\ pc' = "setup_raised"
               /\ setupResult' = "raised"
               /\ hon' = hon
          ELSE /\ pc' = Following("create_hon")
               /\ setupResult' = setupResult
               /\ hon' = [created |-> exc = NoExc,
                          refresh_token |-> IF exc = NoExc THEN token ELSE ""]
    /\ UNCHANGED <<superCalls, configDir, entryData, coordinator, subscribed, hassData,
                   platformSaw, unloadResult, loopVars, devVars>>

\* lines 72-75: hass.config_entries.async_update_entry(entry, data={...})
SetupSaveToken ==
    /\ pc = "save_token"
    /\ entryData' = UpdateEntryData(entryData, hon.refresh_token)
    /\ pc' = Following("save_token")
    /\ UNCHANGED <<superCalls, configDir, hon, coordinator, subscribed, hassData, platformSaw,
                   setupResult, unloadResult, opLog, loopVars, devVars>>

\* line 77: coordinator = HonDataUpdateCoordinator(hass, DOMAIN)
SetupCreateCoordinator ==
    /\ pc = "create_coordinator"
    /\ coordinator' = TRUE
    /\ pc' = Following("create_coordinator")
    /\ UNCHANGED <<superCalls, configDir, hon, entryData, subscribed, hassData, platformSaw,
                   setupResult, unloadResult, opLog, loopVars, devVars>>

\* line 98: hon.subscribe_updates(make_threadsafe_callback(hass, coordinator))
SetupSubscribe ==
    /\ pc = "subscribe"
    /\ subscribed' = subscribed + 1
    /\ pc' = Following("subscribe")
    /\ UNCHANGED <<superCalls, configDir, hon, entryData, coordinator, hassData, platformSaw,
                   setupResult, unloadResult, opLog, loopVars, devVars>>

\* lines 101-102: hass.data[DOMAIN][entry.unique_id] = {"hon":.., "coordinator":..}
SetupStore ==
    /\ pc = "store"
    /\ hassData' = [u \in DOMAIN hassData \cup {UniqueId} |->
                      IF u = UniqueId
                      THEN [hon |-> hon.created, coordinator |-> coordinator]
                      ELSE hassData[u]]
    /\ pc' = Following("store")
    /\ UNCHANGED <<superCalls, configDir, hon, entryData, coordinator, subscribed, platformSaw,
                   setupResult, unloadResult, opLog, loopVars, devVars>>

\* lines 110-126: try / except of async_forward_entry_setups_with_error_handling
ForwardResultSwallowValueError(exc) ==
    IF exc = NoExc THEN OpRec(NoExc, "returned", "none")
    ELSE IF exc.type = "ValueError" THEN OpRec(exc, "returned", "debug")
    ELSE OpRec(exc, "raised", "error")

ForwardResult(exc) ==
    IF exc = NoExc THEN OpRec(NoExc, "returned", "none")
    ELSE IF exc.type = "ValueError" THEN
        IF Contains(exc.msg, AlreadyNeedle) THEN OpRec(exc, "returned", "debug")
        ELSE OpRec(exc, "raised", "error")
    ELSE OpRec(exc, "raised", "error")

\* what the host's async_forward_entry_setups may raise
HostForwardExcs ==
    {NoExc, Exc("ValueError", AlreadySetupMsg), Exc("ValueError", NeverLoadedMsg),
     Exc("RuntimeError", AlreadySetupMsg), Exc("RuntimeError", <<"boom">>)}

\* line 105: await async_forward_entry_setups_with_error_handling(hass, entry);
\* when the host forwards, the switch platform's async_setup_entry runs
\* (switch.py 405-432) and reads hass.data[DOMAIN][entry.unique_id]["hon"]
SetupForward(hostExc) ==
    /\ pc = "forward"
    /\ LET stored == UniqueId \in DOMAIN hassData
           exc == IF hostExc = NoExc /\ ~stored THEN KeyErrorExc ELSE hostExc
           r == ForwardResult(exc)
       IN
       /\ IF hostExc = NoExc
          THEN /\ platformSaw' = IF stored
                                 THEN [ran |-> TRUE, hon |-> hassData[UniqueId].hon,
                                       coordinator |-> hassData[UniqueId].coordinator]
                                 ELSE [ran |-> TRUE, hon |-> FALSE,
                                       coordinator |-> FALSE]
               /\ IF stored
                  THEN SwitchSetupEntry
                  ELSE UNCHANGED <<entities, addCalls, attrIsOn>>
          ELSE UNCHANGED <<platformSaw, entities, addCalls, attrIsOn>>
       /\ IF r.outcome = "raised"
          THEN /\ pc' = "setup_raised"
               /\ setupResult' = "raised"
               /\ opLog' = [opLog EXCEPT
                    !["async_forward_entry_setups_with_error_handling"] = r,
                    !["async_setup_entry"] = r]
          ELSE /\ pc' = Following("forward")
               /\ setupResult' = setupResult
               /\ opLog' = [opLog EXCEPT
                    !["async_forward_entry_setups_with_error_handling"] = r]
    /\ UNCHANGED <<superCalls, configDir, hon, entryData, coordinator, subscribed, hassData,
                   unloadResult, loopVars, appliances, superAvailable, sent, call,
                   callWrites>>

\* lines 106-107: return True
SetupReturn ==
    /\ pc = "return"
    /\ setupResult' = "True"
    /\ opLog' = [opLog EXCEPT !["async_setup_entry"] =
                    OpRec(opLog["async_forward_entry_setups_with_error_handling"].exc,
                          "returned",
                          opLog["async_forward_entry_setups_with_error_handling"].logged)]
    /\ pc' = Following("return")
    /\ UNCHANGED <<superCalls, configDir, hon, entryData, coordinator, subscribed, hassData,
                   platformSaw, unloadResult, loopVars, devVars>>

\* the vendor client renews its refresh token (hon.api.auth.refresh_token)
HonRefreshToken(token) ==
    /\ AtAwait
    /\ hon.created
    /\ token /= hon.refresh_token
    /\ hon' = [hon EXCEPT !.refresh_token = token]
    /\ UNCHANGED <<superCalls, pc, configDir, entryData, coordinator, subscribed, hassData,
                   platformSaw, setupResult, unloadResult, opLog, loopVars, devVars>>

-----------------------------------------------------------------------------
\* __init__.py: async_unload_entry

\* lines 132-136: read the token of hass.data[..]["hon"], update the entry
UnloadSaveToken ==
    /\ pc = "setup_done"
    /\ UniqueId \in DOMAIN hassData
    /\ entryData' = UpdateEntryData(entryData, hon.refresh_token)
    /\ pc' = "unload_platforms"
    /\ UNCHANGED <<superCalls, configDir, hon, coordinator, subscribed, hassData, platformSaw,
                   setupResult, unloadResult, opLog, loopVars, devVars>>

\* lines 137-143: unload = await async_unload_platforms(..); hass.data[DOMAIN]
\* is popped only when it is empty, and nothing removes the entry's record
UnloadPlatforms(unload) ==
    /\ pc = "unload_platforms"
    /\ unloadResult' = IF unload THEN "True" ELSE "False"
    /\ hassData' = IF unload /\ DOMAIN hassData = {} THEN <<>> ELSE hassData
    /\ pc' = IF unload THEN "unloaded" ELSE "unload_failed"
    /\ IF unload
       THEN /\ entities' = <<>>
            /\ attrIsOn' = <<>>
       ELSE UNCHANGED <<entities, attrIsOn>>
    /\ UNCHANGED <<superCalls, configDir, hon, entryData, coordinator, subscribed, platformSaw,
                   setupResult, opLog, loopVars, appliances, addCalls,
                   superAvailable, sent, call, callWrites>>

-----------------------------------------------------------------------------
\* __init__.py: the callback built by make_threadsafe_callback, and the loop

LoopClosedExc == Exc("RuntimeError", <<"Event", "loop", "is", "closed">>)

\* the callbacks one invocation of wrapper hands to call_soon_threadsafe
WrapperSchedulesTwice(id) == <<id, id>>

WrapperSchedules(id) == <<id>>

\* try / except of wrapper: log the error, return
WrapperResult(exc) ==
    IF exc = NoExc THEN OpRec(NoExc, "returned", "none")
    ELSE OpRec(exc, "returned", "error")

\* the head of the loop's ready queue, which the loop runs next

NextReady(queue) == 1

RemoveAt(queue, i) == SubSeq(queue, 1, i - 1) \o SubSeq(queue, i + 1, Len(queue))

\* lines 80-89: the client library invokes wrapper(*args, **kwargs) in its thread
VendorNotify ==
    /\ subscribed > 0
    /\ notified < MaxNotifications
    /\ notified' = notified + 1
    /\ LET exc == IF loopClosed THEN LoopClosedExc ELSE NoExc IN
       /\ opLog' = [opLog EXCEPT !["wrapper"] = WrapperResult(exc)]
       /\ IF exc = NoExc
          THEN /\ loopQueue' = loopQueue \o WrapperSchedules(notified')
               /\ scheduled' = scheduled \o WrapperSchedules(notified')
          ELSE UNCHANGED <<loopQueue, scheduled>>
    /\ UNCHANGED <<superCalls, pc, configDir, hon, entryData, coordinator, subscribed, hassData,
                   platformSaw, setupResult, unloadResult, loopClosed, coordRuns,
                   devVars>>

\* line 85: the loop runs  lambda: coordinator.async_set_updated_data({})
LoopRun(baseExc, failing) ==
    /\ AtAwait
    /\ ~loopClosed
    /\ loopQueue /= <<>>
    /\ LET i == NextReady(loopQueue) IN
       /\ coordRuns' = Append(coordRuns, [id |-> loopQueue[i], thread |-> "loop"])
       /\ loopQueue' = RemoveAt(loopQueue, i)
    /\ async_set_updated_data(appliances, baseExc, failing)
    /\ UNCHANGED <<pc, configDir, hon, entryData, coordinator, subscribed, hassData,
                   platformSaw, setupResult, unloadResult, loopClosed, notified,
                   scheduled, appliances, entities, addCalls, superAvailable, sent,
                   call, callWrites>>

\* the host stops: its loop is closed while the client library still notifies
LoopClose ==
    /\ pc \in {"setup_done", "setup_raised", "unloaded", "unload_failed"}
    /\ ~loopClosed
    /\ loopClosed' = TRUE
    /\ UNCHANGED <<superCalls, lifeVars, loopQueue, notified, scheduled, coordRuns, devVars>>

-----------------------------------------------------------------------------
\* The integration's life cycle on one washing machine

NoCall == [entity |-> 0, op |-> "none", stage |-> "idle"]

DefaultWM ==
    [appliance_type |-> "WM",
     settings |-> [k \in {"startProgram.delayStatus", "settings.autoSoftenerStatus"} |->
                     IF k = "startProgram.delayStatus" THEN RangeParam(0, 1, 0)
                     ELSE OtherParam("HonParameterEnum", Str(0))],
     commands |-> {"startProgram", "stopProgram", "settings"},
     attributes |-> [k \in AttrKeys |-> IF k = "autoSoftenerStatus" THEN Num(1)
                                        ELSE Absent],
     category |-> "CONNECTED"]

BaseEntryData == [k \in {CONF_EMAIL, CONF_PASSWORD} |->
                    IF k = CONF_EMAIL THEN "user@example.org" ELSE "secret"]

InitLoop ==
    /\ loopQueue = <<>>
    /\ loopClosed = FALSE
    /\ notified = 0
    /\ scheduled = <<>>
    /\ coordRuns = <<>>

InitLife ==
    /\ pc = "check_config_dir"
    /\ hon = [created |-> FALSE, refresh_token |-> ""]
    /\ coordinator = FALSE
    /\ subscribed = 0
    /\ hassData = <<>>
    /\ platformSaw = [ran |-> FALSE, hon |-> FALSE, coordinator |-> FALSE]
    /\ setupResult = "none"
    /\ unloadResult = "none"
    /\ opLog = [o \in Ops |-> NotRun]
    /\ superCalls = NoSuperCalls

Init ==
    /\ InitLife
    /\ InitLoop
    /\ configDir \in BOOLEAN
    /\ entryData \in {BaseEntryData} \cup
                     {UpdateEntryData(BaseEntryData, t) : t \in Tokens}
    /\ appliances = <<DefaultWM>>
    /\ entities = <<>>
    /\ addCalls = 0
    /\ attrIsOn = <<>>
    /\ superAvailable = TRUE
    /\ sent = <<>>
    /\ call = NoCall
    /\ callWrites = {}

Next ==
    \/ SetupCheckConfigDir
    \/ \E exc \in {NoExc, AuthFailed}, token \in Tokens : SetupCreateHon(exc, token)
    \/ SetupSaveToken
    \/ SetupCreateCoordinator
    \/ SetupSubscribe
    \/ SetupStore
    \/ \E hostExc \in HostForwardExcs : SetupForward(hostExc)
    \/ SetupReturn
    \/ \E token \in Tokens : HonRefreshToken(token)
    \/ UnloadSaveToken
    \/ \E unload \in BOOLEAN : UnloadPlatforms(unload)
    \/ VendorNotify
    \/ \E baseExc \in {NoExc, BaseExc},
          failing \in {{}, Listeners(entities)} : LoopRun(baseExc, failing)
    \/ LoopClose

Spec == Init /\ [][Next]_vars

-----------------------------------------------------------------------------
\* Properties of the life cycle (checked under Spec)

Op(o) == opLog[o]
IsDuplicateSetup(exc) == exc.type = "ValueError" /\ Contains(exc.msg, AlreadyNeedle)
LoggedAndRaised(r)  == r.outcome = "raised" /\ r.logged = "error"
LoggedAndSwallowed(r) == r.outcome = "returned" /\ r.logged = "error"

\* C1 (as stated): every error raised inside an operation is re-raised to the
\* caller: no operation returns normally after an error occurred inside it.
C1_EveryErrorReraised ==
    \A o \in Ops : Op(o).exc /= NoExc => Op(o).outcome = "raised"

\* C1 (amended): an error is logged and re-raised by the Hon creation of
\* async_setup_entry, by async_forward_entry_setups_with_error_handling unless
\* it is the duplicate-setup ValueError, and by
\* HonDataUpdateCoordinator.async_set_updated_data; the vendor callback and the
\* entities' _handle_coordinator_update log the error and return normally; the
\* duplicate-setup ValueError is logged at debug level and swallowed, so that
\* async_setup_entry returns normally after it; the missing config dir
\* ValueError is raised without being logged.
C1_ErrorPolicy ==
    /\ Op("async_set_updated_data").exc /= NoExc
          => LoggedAndRaised(Op("async_set_updated_data"))
    /\ Op("wrapper").exc /= NoExc => LoggedAndSwallowed(Op("wrapper"))
    /\ Op("_handle_coordinator_update").exc /= NoExc
          => LoggedAndSwallowed(Op("_handle_coordinator_update"))
    /\ LET f == Op("async_forward_entry_setups_with_error_handling") IN
       f.exc /= NoExc =>
          IF IsDuplicateSetup(f.exc)
          THEN f.outcome = "returned" /\ f.logged = "debug"
          ELSE LoggedAndRaised(f)
    /\ LET r == Op("async_setup_entry") IN
       r.exc /= NoExc =>
          IF IsDuplicateSetup(r.exc)
          THEN r.outcome = "returned" /\ r.logged = "debug"
          ELSE IF r.exc = MissingConfigDir
          THEN r.outcome = "raised" /\ r.logged = "none"
          ELSE LoggedAndRaised(r)

\* an error re-raised by the coordinator, one swallowed by the vendor callback
\* and a duplicate setup swallowed by the forwarding have all happened
C1_Witness ==
    /\ Op("async_set_updated_data").outcome = "raised"
    /\ Op("wrapper").exc /= NoExc
    /\ Op("async_forward_entry_setups_with_error_handling").exc /= NoExc
    /\ Op("async_forward_entry_setups_with_error_handling").outcome = "returned"

Stored == UniqueId \in DOMAIN hassData

\* C2: the client is created, then the coordinator is created and subscribed,
\* then {hon, coordinator} is stored, and only then are the platforms forwarded:
\* when the switch platform's setup runs the record holds both, and
\* async_setup_entry returns True only after the forwarding has returned.
C2_SetupOrder ==
    /\ coordinator => hon.created
    /\ subscribed > 0 => coordinator
    /\ Stored => /\ subscribed > 0
                 /\ hassData[UniqueId].hon /\ hassData[UniqueId].coordinator
    /\ Op("async_forward_entry_setups_with_error_handling").outcome /= "not_run"
          => Stored
    /\ platformSaw.ran => platformSaw.hon /\ platformSaw.coordinator
    /\ setupResult = "True" =>
          Op("async_forward_entry_setups_with_error_handling").outcome = "returned"

\* the switch platform was set up and async_setup_entry returned True
C2_Witness == platformSaw.ran /\ setupResult = "True" /\ Len(entities) > 0

\* C3: the forwarding returns normally iff the host's forwarding succeeded or
\* raised a ValueError whose message contains "has already been setup"; every
\* other failure is re-raised unchanged (and leaves async_setup_entry with it);
\* after a swallowed duplicate setup async_setup_entry goes on to return True.
C3_ForwardErrorHandling ==
    LET f == Op("async_forward_entry_setups_with_error_handling") IN
    /\ f.outcome = "returned" <=>
          /\ f.outcome /= "not_run"
          /\ (f.exc = NoExc \/ IsDuplicateSetup(f.exc))
    /\ f.outcome = "raised" =>
          /\ setupResult = "raised"
          /\ Op("async_setup_entry").exc = f.exc
          /\ Op("async_setup_entry").outcome = "raised"
    /\ f.outcome = "returned" =>
          /\ setupResult /= "raised"
          /\ pc = "setup_done" => setupResult = "True"
          /\ pc \in {"return", "setup_done", "unload_platforms", "unloaded",
                     "unload_failed"}

\* async_setup_entry returned True although the host raised the duplicate error
C3_Witness ==
    /\ setupResult = "True"
    /\ IsDuplicateSetup(Op("async_forward_entry_setups_with_error_handling").exc)

RunIds == [i \in 1..Len(coordRuns) |-> coordRuns[i].id]

\* C4 (as stated): each invocation of the vendor callback schedules exactly one
\* coordinator update on the event loop.
C4_ExactlyOnePerInvocation == Len(scheduled) = notified

C4_LoopInvariant ==
    /\ Len(scheduled) <= notified
    /\ ~loopClosed => Len(scheduled) = notified
    /\ \A i, j \in 1..Len(scheduled) : i < j => scheduled[i] < scheduled[j]
    /\ \A i \in 1..Len(coordRuns) : coordRuns[i].thread = "loop"
    /\ RunIds \o loopQueue = scheduled

\* C4 (amended): an invocation of the vendor callback schedules exactly one
\* coordinator update on the event loop unless call_soon_threadsafe raises (the
\* loop is closed), in which case it schedules none, logs the error and
\* returns; it never calls the coordinator inline, and the scheduled updates
\* run on the event loop only, at most once each, in scheduling order.
C4_ScheduledOnLoop ==
    /\ []C4_LoopInvariant
    /\ [][notified' /= notified =>
            /\ notified' = notified + 1
            /\ coordRuns' = coordRuns
            /\ IF loopClosed THEN scheduled' = scheduled
               ELSE scheduled' = Append(scheduled, notified')]_vars

\* two updates ran on the loop in order and a third notification was dropped
C4_Witness ==
    /\ Len(coordRuns) = 2
    /\ notified = 3
    /\ Len(scheduled) = 2
    /\ Op("wrapper").exc = LoopClosedExc

EntryUpdated(old, new, token) ==
    /\ DOMAIN new = DOMAIN old \cup {CONF_REFRESH_TOKEN}
    /\ new[CONF_REFRESH_TOKEN] = token
    /\ \A k \in DOMAIN old \ {CONF_REFRESH_TOKEN} : new[k] = old[k]

\* C5: after the client is created, and whenever async_unload_entry runs,
\* entry.data gets the client's current refresh token and keeps every other
\* key; in async_unload_entry this happens before the platforms are unloaded,
\* whatever the unload returns; nothing else changes entry.data.
C5_RefreshTokenSaved ==
    /\ [][(pc = "save_token" /\ pc' /= pc) \/ (pc = "setup_done" /\ pc' /= pc)
            => hon.created /\ EntryUpdated(entryData, entryData', hon.refresh_token)]_vars
    /\ [][entryData' /= entryData => pc \in {"save_token", "setup_done"}]_vars
    /\ [][pc' \in {"unloaded", "unload_failed"} /\ pc' /= pc
            => pc = "unload_platforms" /\ entryData' = entryData]_vars
    /\ [](pc \in {"create_coordinator", "subscribe", "store", "forward", "return",
                  "setup_done", "unload_platforms", "unloaded", "unload_failed"}
            => /\ DOMAIN entryData = {CONF_EMAIL, CONF_PASSWORD, CONF_REFRESH_TOKEN}
               /\ entryData[CONF_REFRESH_TOKEN] \in Tokens
               /\ entryData[CONF_EMAIL] = BaseEntryData[CONF_EMAIL]
               /\ entryData[CONF_PASSWORD] = BaseEntryData[CONF_PASSWORD])

\* the unload failed and the entry holds the token the client had renewed
C5_Witness ==
    /\ pc = "unload_failed"
    /\ unloadResult = "False"
    /\ entryData = UpdateEntryData(BaseEntryData, "tokB")
    /\ hon.refresh_token = "tokB"

-----------------------------------------------------------------------------
\* The switch platform's async_setup_entry on every list of appliances

ConfigKey  == "startProgram.delayStatus"
SwitchKey  == "settings.autoSoftenerStatus"

Device(type, names, cmds, active) ==
    [appliance_type |-> type,
     settings |-> [k \in names |-> IF k = ConfigKey THEN RangeParam(0, 1, 0)
                                   ELSE OtherParam("HonParameterEnum", Str(0))],
     commands |-> cmds,
     attributes |-> [k \in AttrKeys |-> IF k = "active" THEN active ELSE Absent],
     category |-> "CONNECTED"]

DeviceConfigs ==
    {Device(type, names, cmds, active) :
        type \in ApplianceTypes,
        names \in SUBSET {ConfigKey, SwitchKey},
        cmds \in SUBSET {"startProgram", "stopProgram"},
        active \in {Absent, BoolV(FALSE)}}

ApplianceLists ==
    UNION {[1..n -> DeviceConfigs] : n \in 1..MaxAppliances}

InitEntitiesIdle ==
    /\ superAvailable = TRUE
    /\ sent = <<>>
    /\ call = NoCall
    /\ callWrites = {}

InitPlatform ==
    /\ InitLife
    /\ InitLoop
    /\ configDir = TRUE
    /\ entryData = BaseEntryData
    /\ appliances \in ApplianceLists
    /\ entities = <<>>
    /\ addCalls = 0
    /\ attrIsOn = <<>>
    /\ InitEntitiesIdle

PlatformSetup ==
    /\ addCalls = 0
    /\ SwitchSetupEntry
    /\ UNCHANGED <<superCalls, lifeVars, loopVars, appliances, superAvailable, sent, call,
                   callWrites>>

NextPlatform == PlatformSetup

SpecPlatform == InitPlatform /\ [][NextPlatform]_vars

EntitiesFor(i, d) ==
    {k \in 1..Len(entities) : entities[k].device = i /\ entities[k].description = d}

TableOf(type) == {SWITCHES(type)[j] : j \in 1..Len(SWITCHES(type))}
AllDescriptions == UNION {TableOf(t) : t \in ApplianceTypes}

\* the class the claim gives to description d on a device, "none" for no entity
ClaimedClass(device, d) ==
    IF d.cls = "HonConfigSwitchEntityDescription"
       /\ d.key \in available_settings(device)
    THEN "HonConfigSwitchEntity"
    ELSE IF d.cls = "HonControlSwitchEntityDescription"
       /\ ( device.attributes[d.key] /= Absent
            \/ d.turn_on_key \in device.commands
            \/ d.turn_off_key \in device.commands )
    THEN "HonControlSwitchEntity"
    ELSE IF d.cls = "HonSwitchEntityDescription"
       /\ SettingsKey(d.key) \in available_settings(device)
    THEN "HonSwitchEntity"
    ELSE "none"

\* C7: for each appliance and each description of its type's table the platform
\* creates at most one entity, a config / control / plain switch entity exactly
\* under the stated condition; a type without a table yields no entity; and
\* async_add_entities is called exactly once, with the whole list.
C7_EntitiesCreated ==
    /\ addCalls <= 1
    /\ addCalls = 0 => entities = <<>>
    /\ addCalls = 1 =>
        /\ \A i \in 1..Len(appliances) : \A d \in AllDescriptions :
              LET want == IF d \in TableOf(appliances[i].appliance_type)
                          THEN ClaimedClass(appliances[i], d) ELSE "none"
              IN  IF want = "none" THEN EntitiesFor(i, d) = {}
                  ELSE /\ Cardinality(EntitiesFor(i, d)) = 1
                       /\ \A k \in EntitiesFor(i, d) : entities[k].cls = want
        /\ \A k \in 1..Len(entities) :
              /\ entities[k].device \in 1..Len(appliances)
              /\ entities[k].description
                    \in TableOf(appliances[entities[k].device].appliance_type)

\* a device of a type without table yields nothing; a washing machine that has
\* only the stopProgram command and both settings yields its three entities
C7_Witness ==
    /\ addCalls = 1
    /\ Len(appliances) = 2
    /\ appliances[1] = Device("XX", {ConfigKey, SwitchKey}, {"startProgram"}, Absent)
    /\ appliances[2] = Device("WM", {ConfigKey, SwitchKey}, {"stopProgram"}, Absent)
    /\ Len(entities) = 3
    /\ \A k \in 1..3 : entities[k].device = 2

-----------------------------------------------------------------------------
\* switch.py: the entities' service calls, on the single appliance appliances[1]

Dev == appliances[1]
Idle == call.stage /= "sending"          \* no call is waiting for a send
EntityOf(cls) == CHOOSE i \in 1..Len(entities) : entities[i].cls = cls
IsCall(cls) == call.entity /= 0 /\ entities[call.entity].cls = cls

CoordinatorChoices == {NoExc, BaseExc}
FailingChoices == {{}, Listeners(entities)}

\* HonConfigSwitchEntity.async_turn_on / async_turn_off (lines 581-601): no await
ConfigTurn(i, on, baseExc, failing) ==
    /\ Idle
    /\ entities[i].cls = "HonConfigSwitchEntity"
    /\ LET key == entities[i].description.key
           setting == Dev.settings[key]
           v == IF on THEN HonConfigSwitchEntity_on_value(setting)
                ELSE HonConfigSwitchEntity_off_value(setting)
           op == IF on THEN "turn_on" ELSE "turn_off"
       IN
       IF IsBareHonParameter(setting)
       THEN /\ call' = [entity |-> i, op |-> op, stage |-> "skipped"]
            /\ callWrites' = {}
            /\ UNCHANGED <<appliances, opLog, attrIsOn, superCalls>>
       ELSE /\ appliances' = SetValue(appliances, 1, key, v)
            /\ async_set_updated_data(appliances', baseExc, failing)
            /\ call' = [entity |-> i, op |-> op,
                        stage |-> IF baseExc = NoExc THEN "done" ELSE "raised"]
            /\ callWrites' = IF baseExc = NoExc
                             THEN WrittenBy(baseExc, failing) \cup {i} ELSE {}
    /\ UNCHANGED <<pc, configDir, hon, entryData, coordinator, subscribed, hassData,
                   platformSaw, setupResult, unloadResult, loopVars, entities,
                   addCalls, superAvailable, sent>>

\* HonSwitchEntity.async_turn_on / async_turn_off up to the await (447-455)
SwitchTurnStart(i, on) ==
    /\ Idle
    /\ Len(sent) < MaxCalls
    /\ entities[i].cls = "HonSwitchEntity"
    /\ LET name == SettingsKey(entities[i].description.key)
           setting == Dev.settings[name]
           v == IF on THEN HonSwitchEntity_on_value(setting)
                ELSE HonSwitchEntity_off_value(setting)
           op == IF on THEN "turn_on" ELSE "turn_off"
       IN
       IF IsBareHonParameter(setting)
       THEN /\ call' = [entity |-> i, op |-> op, stage |-> "skipped"]
            /\ callWrites' = {}
            /\ UNCHANGED appliances
       ELSE /\ appliances' = SetValue(appliances, 1, name, v)
            /\ callWrites' = {i}
            /\ call' = [entity |-> i, op |-> op, stage |-> "sending"]
    /\ UNCHANGED <<superCalls, lifeVars, loopVars, entities, addCalls, attrIsOn,
                   superAvailable, sent>>

\* the outcome of  await device.commands[name].send()
SendOutcome(device, name, ok) ==
    IF name \notin device.commands THEN "raised"       \* KeyError
    ELSE IF ok THEN "done" ELSE "raised"

\* HonSwitchEntity.async_turn_on / async_turn_off from the await on (455-457)
SwitchSendDone(ok, baseExc, failing) ==
    /\ call.stage = "sending"
    /\ IsCall("HonSwitchEntity")
    /\ IF SendOutcome(Dev, "settings", ok) = "done"
       THEN /\ sent' = Append(sent, "settings")
            /\ async_set_updated_data(appliances, baseExc, failing)
            /\ callWrites' = callWrites \cup WrittenBy(baseExc, failing)
            /\ call' = [call EXCEPT !.stage =
                            IF baseExc = NoExc THEN "done" ELSE "raised"]
       ELSE /\ call' = [call EXCEPT !.stage = "raised"]
            /\ UNCHANGED <<sent, opLog, attrIsOn, callWrites, superCalls>>
    /\ UNCHANGED <<pc, configDir, hon, entryData, coordinator, subscribed, hassData,
                   platformSaw, setupResult, unloadResult, loopVars, appliances,
                   entities, addCalls, superAvailable>>

\* the command of HonControlSwitchEntity.async_turn_on / async_turn_off
ControlCommand(d, on) == IF on THEN d.turn_on_key ELSE d.turn_off_key

\* HonControlSwitchEntity.async_turn_on / async_turn_off up to the await
\* (519-523): sync_command, then the coordinator update notifies the listeners
ControlTurnStart(i, on, baseExc, failing) ==
    /\ Idle
    /\ Len(sent) < MaxCalls
    /\ entities[i].cls = "HonControlSwitchEntity"
    /\ async_set_updated_data(appliances, baseExc, failing)
    /\ callWrites' = WrittenBy(baseExc, failing)
    /\ call' = [entity |-> i, op |-> IF on THEN "turn_on" ELSE "turn_off",
                stage |-> IF baseExc = NoExc THEN "sending" ELSE "raised"]
    /\ UNCHANGED <<pc, configDir, hon, entryData, coordinator, subscribed, hassData,
                   platformSaw, setupResult, unloadResult, loopVars, appliances,
                   entities, addCalls, superAvailable, sent>>

\* lines 524 / 533: device.attributes[key] = True / False, after the send
AttributesAfterSendOptimistic(devs, key, v, outcome) ==
    SetAttribute(devs, 1, key, v)

AttributesAfterSend(devs, key, v, outcome) ==
    IF outcome = "done" THEN SetAttribute(devs, 1, key, v) ELSE devs

\* HonControlSwitchEntity.async_turn_on / async_turn_off from the await on
\* (523-526): the send completes or raises; attribute, then async_write_ha_state
ControlSendDone(ok) ==
    /\ call.stage = "sending"
    /\ IsCall("HonControlSwitchEntity")
    /\ LET d == entities[call.entity].description
           on == call.op = "turn_on"
           outcome == SendOutcome(Dev, ControlCommand(d, on), ok)
       IN
       /\ appliances' = AttributesAfterSend(appliances, d.key, BoolV(on), outcome)
       /\ call' = [call EXCEPT !.stage = outcome]
       /\ IF outcome = "done"
          THEN /\ sent' = Append(sent, ControlCommand(d, on))
               /\ callWrites' = callWrites \cup {call.entity}
          ELSE UNCHANGED <<sent, callWrites>>
    /\ UNCHANGED <<superCalls, lifeVars, loopVars, entities, addCalls, attrIsOn, superAvailable>>

\* the vendor reports a new value of an attribute
AttrValues == {Absent, Num(0), Num(1), Num(2), Str(1)}
DeviceUpdate(key, v) ==
    /\ Dev.attributes[key] /= v
    /\ appliances' = SetAttribute(appliances, 1, key, v)
    /\ UNCHANGED <<superCalls, lifeVars, loopVars, entities, addCalls, attrIsOn,
                   superAvailable, sent, call, callWrites>>

\* the vendor reports attributes.lastConnEvent.category
Categories == {"none", "CONNECTED", "DISCONNECTED"}
CategoryUpdate(c) ==
    /\ Dev.category /= c
    /\ appliances' = [appliances EXCEPT ![1].category = c]
    /\ UNCHANGED <<superCalls, lifeVars, loopVars, entities, addCalls, attrIsOn,
                   superAvailable, sent, call, callWrites>>

\* HonEntity.available (the base class) changes
BaseAvailabilityChanges ==
    /\ superAvailable' = ~superAvailable
    /\ UNCHANGED <<superCalls, lifeVars, loopVars, appliances, entities, addCalls, attrIsOn,
                   sent, call, callWrites>>

\* a washing machine with every setting and the given parameters / commands
Washer(configParam, switchParam, cmds, active) ==
    [appliance_type |-> "WM",
     settings |-> [k \in {ConfigKey, SwitchKey} |->
                     IF k = ConfigKey THEN configParam ELSE switchParam],
     commands |-> cmds,
     attributes |-> [k \in AttrKeys |-> IF k = "active" THEN active ELSE Absent],
     category |-> "CONNECTED"]

AllCommands == {"startProgram", "stopProgram", "settings"}

InitEntities(devs) ==
    /\ InitLife
    /\ InitLoop
    /\ configDir = TRUE
    /\ entryData = BaseEntryData
    /\ appliances \in {<<dev>> : dev \in devs}
    /\ entities = SetupEntities(appliances, 1)
    /\ addCalls = 1
    /\ attrIsOn = [i \in 1..Len(entities) |-> Absent]
    /\ InitEntitiesIdle

-----------------------------------------------------------------------------
\* HonConfigSwitchEntity on every start-program parameter

EnumZero == OtherParam("HonParameterEnum", Str(0))

InitConfigSwitch ==
    InitEntities({Washer(p, EnumZero, AllCommands, Absent) : p \in Params})

NextConfigSwitch ==
    \E on \in BOOLEAN, baseExc \in CoordinatorChoices, failing \in FailingChoices :
        ConfigTurn(EntityOf("HonConfigSwitchEntity"), on, baseExc, failing)

SpecConfigSwitch == InitConfigSwitch /\ [][NextConfigSwitch]_vars

ConfigSetting == Dev.settings[ConfigKey]
ConfigIsOn == HonConfigSwitchEntity_is_on(Dev, DelayDesc)
ConfigCallDone(op) ==
    IsCall("HonConfigSwitchEntity") /\ call.stage = "done" /\ call.op = op

\* C6 (as stated): for every setting that is not a bare HonParameter (a range
\* with any min / max included), is_on is True after async_turn_on completes.
C6_OnAfterTurnOn ==
    ConfigCallDone("turn_on") => ConfigIsOn = BoolV(TRUE)

C6_OnOffInvariant ==
    /\ ConfigCallDone("turn_off") =>
          /\ ConfigIsOn = BoolV(FALSE)
          /\ ConfigSetting.value = HonConfigSwitchEntity_off_value(ConfigSetting)
    /\ ConfigCallDone("turn_on") =>
          /\ ConfigIsOn = BoolV(~(IsHonParameterRange(ConfigSetting)
                                  /\ ConfigSetting.min = ConfigSetting.max))
          /\ ConfigSetting.value = HonConfigSwitchEntity_on_value(ConfigSetting)
    /\ IsCall("HonConfigSwitchEntity") /\ call.stage /= "skipped"
          => ~IsBareHonParameter(ConfigSetting)

\* C6 (amended): for every setting that is not a bare HonParameter, is_on is
\* False after async_turn_off completes, and True after async_turn_on
\* completes unless the setting is a range with min = max (then it is False);
\* a second turn_on (turn_off) leaves the value a single call gave.
C6_OnOffSemantics ==
    /\ []C6_OnOffInvariant
    /\ [][call.stage = "done" /\ call'.stage = "done" /\ call'.op = call.op
            => Dev'.settings = Dev.settings]_vars

\* turn_off completed on a range with min < max that had been turned on
C6_Witness ==
    /\ ConfigCallDone("turn_off")
    /\ IsHonParameterRange(ConfigSetting)
    /\ ConfigSetting.min < ConfigSetting.max
    /\ attrIsOn[EntityOf("HonConfigSwitchEntity")] = BoolV(FALSE)
    /\ Op("async_set_updated_data").outcome = "returned"

-----------------------------------------------------------------------------
\* HonSwitchEntity on every parameter and every reported attribute

InitSwitch ==
    InitEntities({Washer(RangeParam(0, 1, 0), p, AllCommands, Absent) : p \in Params})

RemoteCtrValues == {Absent, Num(0), Num(1)}

NextSwitch ==
    \/ \E on \in BOOLEAN : SwitchTurnStart(EntityOf("HonSwitchEntity"), on)
    \/ \E ok \in BOOLEAN, baseExc \in CoordinatorChoices, failing \in FailingChoices :
          SwitchSendDone(ok, baseExc, failing)
    \/ \E v \in AttrValues : DeviceUpdate("autoSoftenerStatus", v)
    \/ \E v \in RemoteCtrValues : DeviceUpdate("remoteCtrValid", v)
    \/ \E c \in Categories : CategoryUpdate(c)
    \/ BaseAvailabilityChanges

SpecSwitch == InitSwitch /\ [][NextSwitch]_vars

SwitchSetting == Dev.settings[SwitchKey]
SwitchDegenerate ==
    IsHonParameterRange(SwitchSetting) /\ SwitchSetting.max - SwitchSetting.min < 1

\* C8: HonSwitchEntity.available is True exactly when the base entity is
\* available, remoteCtrValid is 1 or absent, the last connection event is not
\* DISCONNECTED and the setting is not a range with fewer than 2 values.
C8_Available ==
    HonSwitchEntity_available(Dev, SoftenerDesc, superAvailable)
      <=> /\ superAvailable
          /\ Dev.attributes["remoteCtrValid"] \in {Absent, Num(1)}
          /\ Dev.category /= "DISCONNECTED"
          /\ ~SwitchDegenerate

\* everything but the setting, a range with a single value, allows availability
C8_Witness ==
    /\ superAvailable
    /\ Dev.attributes["remoteCtrValid"] = Num(1)
    /\ Dev.category = "none"
    /\ SwitchDegenerate
    /\ ~HonSwitchEntity_available(Dev, SoftenerDesc, superAvailable)

SwitchCall(op) == IsCall("HonSwitchEntity") /\ call.op = op /\ call.stage /= "idle"

\* C9 (as stated): async_turn_on writes the setting's max when it is a range
\* and 1 otherwise; async_turn_off writes its min when a range and 0 otherwise.
C9_AlwaysWrites ==
    /\ SwitchCall("turn_on") =>
          SwitchSetting.value = IF IsHonParameterRange(SwitchSetting)
                                THEN Num(SwitchSetting.max) ELSE Num(1)
    /\ SwitchCall("turn_off") =>
          SwitchSetting.value = IF IsHonParameterRange(SwitchSetting)
                                THEN Num(SwitchSetting.min) ELSE Num(0)

C9_IsOnAndWrites ==
    /\ HonSwitchEntity_is_on(Dev, SoftenerDesc)
          = BoolV(Dev.attributes["autoSoftenerStatus"] = Num(1))
    /\ ~IsBareHonParameter(SwitchSetting) => C9_AlwaysWrites
    /\ IsBareHonParameter(SwitchSetting) =>
          /\ call.stage \in {"idle", "skipped"}
          /\ sent = <<>>
          /\ callWrites = {}

\* C9 (amended): is_on is True exactly when the device-reported value of the
\* key equals 1 (False when it reports none); unless the setting is a bare
\* HonParameter, async_turn_on writes max (range) or 1 and async_turn_off
\* writes min (range) or 0 to "settings.<key>"; on a bare HonParameter both
\* return without writing the setting, writing HA state or sending a command.
C9_SwitchSemantics ==
    /\ []C9_IsOnAndWrites
    /\ [][IsBareHonParameter(SwitchSetting) =>
            Dev'.settings = Dev.settings /\ sent' = sent]_vars

\* a range 0..2 was turned on and the command sent while the device reports 1
C9_Witness ==
    /\ SwitchCall("turn_on")
    /\ call.stage = "done"
    /\ SwitchSetting = RangeParam(0, MaxLevel, MaxLevel)
    /\ sent = <<"settings">>
    /\ HonSwitchEntity_is_on(Dev, SoftenerDesc) = BoolV(TRUE)

-----------------------------------------------------------------------------
\* HonControlSwitchEntity with and without its commands

InitControl ==
    InitEntities({Washer(RangeParam(0, 1, 0), EnumZero, cmds, active) :
                    cmds \in {AllCommands, AllCommands \ {"startProgram"}},
                    active \in {Absent, BoolV(TRUE), BoolV(FALSE)}})

NextControl ==
    \/ \E on \in BOOLEAN, baseExc \in CoordinatorChoices, failing \in FailingChoices :
          ControlTurnStart(EntityOf("HonControlSwitchEntity"), on, baseExc, failing)
    \/ \E ok \in BOOLEAN : ControlSendDone(ok)

SpecControl == InitControl /\ [][NextControl]_vars

ControlCall == IsCall("HonControlSwitchEntity")

\* C10 (as stated, last part): if the send raises, no HA state is written by
\* that call.
C10_NoStateWrittenWhenSendRaises ==
    ControlCall /\ call.stage = "raised" => callWrites = {}

\* C10 (amended): the attribute of the key is written (True by async_turn_on,
\* False by async_turn_off) only in the step in which the command's send
\* completed; if the send raises, the attribute keeps its value and the
\* entity's own async_write_ha_state is not reached. The coordinator update
\* issued before the send has by then notified the listeners, which wrote
\* their HA state.
C10_AttributeAfterSend ==
    /\ [](ControlCall /\ call.stage \in {"sending", "raised"}
            => call.entity \notin callWrites)
    /\ [][appliances' /= appliances =>
            /\ call.stage = "sending" /\ call'.stage = "done"
            /\ sent' = Append(sent, ControlCommand(ActiveDesc, call.op = "turn_on"))
            /\ appliances' = SetAttribute(appliances, 1, "active",
                                          BoolV(call.op = "turn_on"))]_vars
    /\ [][call.stage = "sending" /\ call'.stage = "raised" =>
            /\ appliances' = appliances
            /\ sent' = sent
            /\ callWrites' = callWrites]_vars
    /\ [][call.stage = "sending" /\ call'.stage = "done" =>
            /\ Dev'.attributes["active"] = BoolV(call.op = "turn_on")
            /\ callWrites' = callWrites \cup {call.entity}]_vars

\* turn_off failed at the send after turn_on had set the attribute to True;
\* the listeners wrote their state before the failed send
C10_Witness ==
    /\ ControlCall
    /\ call.op = "turn_off"
    /\ call.stage = "raised"
    /\ sent = <<"startProgram">>
    /\ Dev.attributes["active"] = BoolV(TRUE)
    /\ callWrites /= {}

-----------------------------------------------------------------------------
\* HonDataUpdateCoordinator.async_set_updated_data on every data object

InitCoordinator ==
    InitEntities({Washer(RangeParam(0, 1, 0), EnumZero, AllCommands, Absent)})

\* lines 38-48, called on the event loop with any data
CoordinatorSetUpdatedData(data, exc, failing) ==
    /\ HonDataUpdateCoordinator_async_set_updated_data(appliances, data, exc, failing)
    /\ UNCHANGED <<pc, configDir, hon, entryData, coordinator, subscribed, hassData,
                   platformSaw, setupResult, unloadResult, loopVars, appliances,
                   entities, addCalls, superAvailable, sent, call, callWrites>>

\* what super().async_set_updated_data may raise
SuperExcs == CoordinatorChoices \cup {KeyErrorExc}

NextCoordinator ==
    \/ \E data \in DataObjects, exc \in SuperExcs, failing \in FailingChoices :
          CoordinatorSetUpdatedData(data, exc, failing)
    \/ \E v \in AttrValues : DeviceUpdate("autoSoftenerStatus", v)

SpecCoordinator == InitCoordinator /\ [][NextCoordinator]_vars

\* C11: HonDataUpdateCoordinator.async_set_updated_data calls the base method
\* exactly once, with the data object it was given; it returns normally iff the
\* base method does, and re-raises unchanged the exception the base raises.
C11_CoordinatorLikeBase ==
    LET r == Op("async_set_updated_data") IN
    /\ r.outcome = "not_run" <=> superCalls = NoSuperCalls
    /\ r.outcome /= "not_run" =>
          /\ Len(superCalls.super) = 1
          /\ superCalls.super[1] = superCalls.arg
          /\ r.outcome \in {"returned", "raised"}
          /\ r.outcome = "returned" <=> superCalls.superExc = NoExc
          /\ r.exc = superCalls.superExc

\* the base method raised a KeyError for dataB and the override re-raised it
C11_Witness ==
    /\ superCalls.arg = "dataB"
    /\ superCalls.super = <<"dataB">>
    /\ superCalls.superExc = KeyErrorExc
    /\ Op("async_set_updated_data") = OpRec(KeyErrorExc, "raised", "error")

-----------------------------------------------------------------------------
\* HonConfigSwitchEntity while the vendor reports attributes

NextConfigFrame ==
    \/ \E on \in BOOLEAN, baseExc \in CoordinatorChoices, failing \in FailingChoices :
          ConfigTurn(EntityOf("HonConfigSwitchEntity"), on, baseExc, failing)
    \/ \E v \in AttrValues : DeviceUpdate("autoSoftenerStatus", v)
    \/ \E v \in {Absent, BoolV(TRUE), BoolV(FALSE)} : DeviceUpdate("active", v)

SpecConfigFrame == InitConfigSwitch /\ [][NextConfigFrame]_vars

\* a step of async_turn_on / async_turn_off: a call, a write or a notification
ConfigTurnStep ==
    \/ call' /= call
    \/ Dev'.settings /= Dev.settings
    \/ opLog' /= opLog
    \/ superCalls' /= superCalls
    \/ callWrites' /= callWrites
    \/ attrIsOn' /= attrIsOn

\* everything of the device but the value of the start-program parameter
ConfigFrame ==
    /\ sent' = sent
    /\ Len(appliances') = Len(appliances)
    /\ Dev'.attributes = Dev.attributes
    /\ Dev'.category = Dev.category
    /\ Dev'.commands = Dev.commands
    /\ DOMAIN Dev'.settings = DOMAIN Dev.settings
    /\ \A k \in DOMAIN Dev.settings \ {ConfigKey} : Dev'.settings[k] = Dev.settings[k]
    /\ Dev'.settings[ConfigKey] =
          [Dev.settings[ConfigKey] EXCEPT !.value = Dev'.settings[ConfigKey].value]

\* C12: HonConfigSwitchEntity.async_turn_on / async_turn_off only change the
\* value of the start-program parameter and notify the coordinator and HA
\* state: they send no command and leave every other setting and every device
\* attribute unchanged.
C12_ConfigTurnFrame ==
    /\ [](sent = <<>>)
    /\ [](IsCall("HonConfigSwitchEntity") /\ call.stage = "done"
            => /\ call.entity \in callWrites
               /\ Op("async_set_updated_data").outcome = "returned"
               /\ superCalls.super = <<EmptyData>>)
    /\ [][ConfigTurnStep => ConfigFrame]_vars

\* turn_on completed on a range 0..1 while the device reports attributes: the
\* parameter has its max, the other setting and the attributes are as before
C12_Witness ==
    /\ ConfigCallDone("turn_on")
    /\ ConfigSetting = RangeParam(0, 1, 1)
    /\ Dev.settings[SwitchKey] = EnumZero
    /\ Dev.attributes["autoSoftenerStatus"] = Num(1)
    /\ Dev.attributes["active"] = BoolV(TRUE)
    /\ sent = <<>>
    /\ call.entity \in callWrites

====
